---- MODULE Spec2Model ----
(***************************************************************************)
(* seventv2tg: a Telegram bot that turns 7tv emotes into size-bounded      *)
(* webm videos.  The module models                                          *)
(*   - the request dispatcher of the media handler (activity cache,        *)
(*     request queue, worker pool, per-request error channel),             *)
(*   - the encode degrade loops of the media converter,                    *)
(*   - the composite (overlay) invocation built by assembleSequences,      *)
(*   - the parallel asset fetch of processOverlayedEmote.                  *)
(***************************************************************************)
EXTENDS Integers, Sequences, FiniteSets, TLC

(***************************************************************************)
(* Bounds of the model.                                                    *)
(***************************************************************************)
NumMessages == 2
MaxTextLen == 4
BurstSize == 55
MaxInputLen == 4

(***************************************************************************)
(* Program constants.                                                      *)
(***************************************************************************)
workerCount == 3
emoteIdLength == 26
maxOverlayedEmotes == 3
reqQueueCap == 50

VARIABLES
    received,       \* number of updates Server.Start has dispatched
    hpc,            \* position of each message's handleUpdate goroutine
    chatOf,         \* message.Chat.ID (0 before the update arrives)
    emoteIDs,       \* req.EmoteIDs of the message's request
    notices,        \* what was sent to the requester for this message, in order
    activityCache,  \* keys of h.activityCache
    reqQueue,       \* h.reqQueue, a channel of capacity 50
    errChan,        \* per request: values written to and closes of req.ErrChan
    wpc,            \* position of each mediaWorker
    wreq,           \* the request a worker holds (0: none)
    pipeErr,        \* what the request's process function returned
    dequeues,       \* how many times each request was taken from the queue
    route,          \* which process function a worker called for the request
    panicked        \* the process died of an unrecovered panic

dvars == <<received, hpc, chatOf, emoteIDs, notices, activityCache, reqQueue,
           errChan, wpc, wreq, pipeErr, dequeues, route, panicked>>

VARIABLES
    lpc,          \* position in createVideoFromSequence
    lbitrate,     \* bitrate
    lframerate,   \* framerate
    lsize,        \* fInfo.Size() of the last os.Stat (-1: none yet)
    lattempts,    \* calls of assembleSequence so far
    lcall         \* the last call of downscaleVideoParameters and what it returned

lvars == <<lpc, lbitrate, lframerate, lsize, lattempts, lcall>>

VARIABLES
    jpc,          \* position in ConvertToVideo / OverlayVideos
    jkind,        \* "single": ConvertToVideo, "overlay": OverlayVideos
    jinputs,      \* the input files, each with what magick identify reports
    ji,           \* index of the input the OverlayVideos loop is at
    jframerate,   \* framerate of the current input
    sequences,    \* the SequenceInput values built so far
    jbitrate,     \* bitrate of the degrade loop
    invocations,  \* the ffmpeg invocations so far, in order
    jsize,        \* fInfo.Size() of the last os.Stat (-1: none yet)
    jerr,         \* the step whose error the call returned ("": none)
    jobDir,       \* jobs/<jobID> exists
    resFile       \* the output file at resPath exists

jvars == <<jpc, jkind, jinputs, ji, jframerate, sequences, jbitrate,
           invocations, jsize, jerr, jobDir, resFile>>

VARIABLES
    fpc,            \* position in processOverlayedEmote
    fn,             \* len(emoteIDs)
    gpc,            \* position of each fetch goroutine
    fetched,        \* what DownloadWebp returned to each goroutine
    webpPaths,      \* webpPaths
    ferr,           \* the variable err all the goroutines assign and read
    gret,           \* what each goroutine returned to the errgroup
    egErr,          \* the error the errgroup keeps (the first one returned)
    overlayCalled,  \* OverlayVideos was called
    fret,           \* what processOverlayedEmote returned
    webpFiles,      \* per fetch: the file DownloadWebp created is on disk
    resVideo        \* the result video of OverlayVideos is on disk

fvars == <<fpc, fn, gpc, fetched, webpPaths, ferr, gret, egErr, overlayCalled, fret,
           webpFiles, resVideo>>

VARIABLES
    barrived,     \* submissions of the burst admitted so far
    bpending,     \* handlers at "h.reqQueue <- req", their request not yet sent
    bqueue,       \* requests in the buffer of h.reqQueue
    bbusy,        \* workers holding a request
    bresolved,    \* requests whose worker has closed the result channel
    bexternal     \* workers inside cmd.Run / cmd.Output of magick or ffmpeg

bvars == <<barrived, bpending, bqueue, bbusy, bresolved, bexternal>>

VARIABLES
    itext,        \* strings.Fields(message.Text) of one message
    ipc,          \* position in the input handling of CreateVideoFromEmote
    iuserInput,   \* userInput
    ii,           \* index of the validation loop
    iemoteIDs     \* emoteIDs

ivars == <<itext, ipc, iuserInput, ii, iemoteIDs>>

VARIABLES
    tpc,          \* position in ConvertToTelegramVideo
    tasset,       \* the input file, by what identify prints for it
    tbitrate,     \* the variable bitrate: what getInputFramerate returned
    terr,         \* the named result err
    tresPath,     \* the named result resPath
    tfailed,      \* the steps of the call that failed
    tran          \* the steps of the call that were run

tvars == <<tpc, tasset, tbitrate, terr, tresPath, tfailed, tran>>

VARIABLES
    isInMaintenance,  \* Server.isInMaintenance
    mpc,              \* per update: position of its handleUpdate goroutine
    mkind,            \* per update: what the update is
    mactivity,        \* updates whose requester is in the activity cache
    mqueue,           \* updates whose request was sent to h.reqQueue
    mduring           \* updates admitted while isInMaintenance was true

mvars == <<isInMaintenance, mpc, mkind, mactivity, mqueue, mduring>>

vars == <<dvars, lvars, jvars, fvars, bvars, ivars, tvars, mvars>>

Messages == 1..NumMessages
\* Chat ids are opaque: as many chats as messages tell every case apart.
Chats == 1..NumMessages
Workers == 1..workerCount

Min(a, b) == IF a <= b THEN a ELSE b

(***************************************************************************)
(* Message text.  strings.Fields splits the text into tokens; a token is   *)
(* described by what validateUserInput looks at: whether the trimmed       *)
(* token starts with "7tv.app/emotes" once "https://" and "www." are       *)
(* stripped, whether url.ParseRequestURI accepts the token, the number of  *)
(* path segments, the length of the last one and the last one itself.      *)
(***************************************************************************)
Tokens ==
    { [prefix |-> TRUE,  uri |-> TRUE,  parts |-> 2, idLen |-> emoteIdLength, id |-> "emote"],
      [prefix |-> FALSE, uri |-> TRUE,  parts |-> 2, idLen |-> emoteIdLength, id |-> "emote"],
      [prefix |-> TRUE,  uri |-> FALSE, parts |-> 2, idLen |-> emoteIdLength, id |-> "emote"],
      [prefix |-> TRUE,  uri |-> TRUE,  parts |-> 2, idLen |-> emoteIdLength - 1, id |-> "emot"] }

Texts == UNION { [1..n -> Tokens] : n \in 0..MaxTextLen }

\* validateUserInput: "" stands for the error return, otherwise the emote id,
\* the second segment of the path.
validateUserInput(inp) ==
    IF ~inp.prefix THEN ""
    ELSE IF ~inp.uri THEN ""
    ELSE IF inp.parts # 2 \/ inp.idLen # emoteIdLength THEN ""
    ELSE inp.id

\* No truncation.
Truncate_None(userInput) == userInput

\* userInput[:min(len(userInput), maxOverlayedEmotes)]
Truncate(userInput) == SubSeq(userInput, 1, Min(Len(userInput), maxOverlayedEmotes))

\* What is left of each text after strings.Fields and the truncation.
UserInputs == { Truncate(text) : text \in Texts }

\* The validation loop of CreateVideoFromEmote: TRUE when some token is refused.
AnyInvalid(userInput) == \E i \in 1..Len(userInput) : validateUserInput(userInput[i]) = ""

\* The emoteIDs slice the loop builds when no token is refused.
CollectIDs(userInput) == [i \in 1..Len(userInput) |-> validateUserInput(userInput[i])]

DInit ==
    /\ received = 0
    /\ hpc = [m \in Messages |-> "new"]
    /\ chatOf = [m \in Messages |-> 0]
    /\ emoteIDs = [m \in Messages |-> <<>>]
    /\ notices = [m \in Messages |-> <<>>]
    /\ activityCache = {}
    /\ reqQueue = <<>>
    /\ errChan = [m \in Messages |-> [writes |-> 0, closes |-> 0]]
    /\ wpc = [w \in Workers |-> "idle"]
    /\ wreq = [w \in Workers |-> 0]
    /\ pipeErr = [m \in Messages |-> "none"]
    /\ dequeues = [m \in Messages |-> 0]
    /\ route = [m \in Messages |-> "none"]
    /\ panicked = FALSE

\* A dispatcher that is not running (the other specifications).
DIdle ==
    /\ received = 0
    /\ hpc = [m \in Messages |-> "off"]
    /\ chatOf = [m \in Messages |-> 0]
    /\ emoteIDs = [m \in Messages |-> <<>>]
    /\ notices = [m \in Messages |-> <<>>]
    /\ activityCache = {}
    /\ reqQueue = <<>>
    /\ errChan = [m \in Messages |-> [writes |-> 0, closes |-> 0]]
    /\ wpc = [w \in Workers |-> "off"]
    /\ wreq = [w \in Workers |-> 0]
    /\ pipeErr = [m \in Messages |-> "none"]
    /\ dequeues = [m \in Messages |-> 0]
    /\ route = [m \in Messages |-> "none"]
    /\ panicked = FALSE

(***************************************************************************)
(* CreateVideoFromEmote, one goroutine per update (Server.Start).          *)
(***************************************************************************)

\* The activity-cache hit: the notice is sent and the call returns.
RejectDuplicate_Deletes(m, chat) ==
    /\ notices' = [notices EXCEPT ![m] = Append(@, "already")]
    /\ hpc' = [hpc EXCEPT ![m] = "done"]
    /\ activityCache' = activityCache \ {chat}
    /\ UNCHANGED <<emoteIDs, reqQueue>>

RejectDuplicate(m, chat) ==
    /\ notices' = [notices EXCEPT ![m] = Append(@, "already")]
    /\ hpc' = [hpc EXCEPT ![m] = "done"]
    /\ UNCHANGED <<emoteIDs, activityCache, reqQueue>>

\* A refusal that comes after the insertion in the activity cache.
RejectInvalid_AfterSet(m) ==
    /\ notices' = [notices EXCEPT ![m] = Append(@, "invalid")]
    /\ hpc' = [hpc EXCEPT ![m] = "done"]
    /\ activityCache' = activityCache \cup {chatOf'[m]}
    /\ UNCHANGED <<emoteIDs, reqQueue>>

\* A token is refused: "Invalid emote URL" is sent and the call returns.
RejectInvalid(m) ==
    /\ notices' = [notices EXCEPT ![m] = Append(@, "invalid")]
    /\ hpc' = [hpc EXCEPT ![m] = "done"]
    /\ UNCHANGED <<emoteIDs, activityCache, reqQueue>>

\* The update is dispatched to its goroutine, which runs up to the end of the
\* validation loop: the cache lookup, strings.Fields, the truncation and the
\* validation of each token.  The chat is one that wrote before or the next
\* new one (which new chat it is makes no difference).
HandleUpdate(m) ==
    /\ ~panicked
    /\ m = received + 1
    /\ hpc[m] = "new"
    /\ received' = m
    /\ \E chat \in Chats, userInput \in UserInputs :
         /\ chat <= 1 + Cardinality({chatOf[k] : k \in 1..received})
         /\ chatOf' = [chatOf EXCEPT ![m] = chat]
         /\ IF chat \in activityCache
              THEN RejectDuplicate(m, chat)
              ELSE IF AnyInvalid(userInput)
                THEN RejectInvalid(m)
                ELSE /\ emoteIDs' = [emoteIDs EXCEPT ![m] = CollectIDs(userInput)]
                     /\ hpc' = [hpc EXCEPT ![m] = "set"]
                     /\ UNCHANGED <<notices, activityCache, reqQueue>>
    /\ UNCHANGED <<errChan, wpc, wreq, pipeErr, dequeues, route, panicked>>
    /\ UNCHANGED <<lvars, jvars, fvars, bvars, ivars, tvars, mvars>>

\* h.activityCache.Set(chatID, ...), and the deferred Delete is registered.
SetActivity(m) ==
    /\ ~panicked
    /\ hpc[m] = "set"
    /\ activityCache' = activityCache \cup {chatOf[m]}
    /\ hpc' = [hpc EXCEPT ![m] = "enq"]
    /\ UNCHANGED <<received, chatOf, emoteIDs, notices, reqQueue, errChan,
                   wpc, wreq, pipeErr, dequeues, route, panicked>>
    /\ UNCHANGED <<lvars, jvars, fvars, bvars, ivars, tvars, mvars>>

\* h.reqQueue <- req (blocks while the queue is full), then the "added to
\* processing queue" message.
Enqueue(m) ==
    /\ ~panicked
    /\ hpc[m] = "enq"
    /\ Len(reqQueue) < reqQueueCap
    /\ reqQueue' = Append(reqQueue, m)
    /\ hpc' = [hpc EXCEPT ![m] = "await"]
    /\ UNCHANGED <<received, chatOf, emoteIDs, notices, activityCache, errChan,
                   wpc, wreq, pipeErr, dequeues, route, panicked>>
    /\ UNCHANGED <<lvars, jvars, fvars, bvars, ivars, tvars, mvars>>

\* err = <-req.ErrChan on a closed channel gives nil; the call returns and
\* its deferred calls run: DeleteMessage, then h.activityCache.Delete(chatID).
RecvClosed(m) ==
    /\ ~panicked
    /\ hpc[m] = "await"
    /\ errChan[m].closes > 0
    /\ activityCache' = activityCache \ {chatOf[m]}
    /\ hpc' = [hpc EXCEPT ![m] = "done"]
    /\ UNCHANGED <<received, chatOf, emoteIDs, notices, reqQueue,
                   errChan, wpc, wreq, pipeErr, dequeues, route, panicked>>
    /\ UNCHANGED <<lvars, jvars, fvars, bvars, ivars, tvars, mvars>>

\* After an error was received: the "Unknown error" notice, then the deferred
\* calls: DeleteMessage, then h.activityCache.Delete(chatID).
Release(m) ==
    /\ ~panicked
    /\ hpc[m] = "release"
    /\ notices' = [notices EXCEPT ![m] = Append(@, "failed")]
    /\ activityCache' = activityCache \ {chatOf[m]}
    /\ hpc' = [hpc EXCEPT ![m] = "done"]
    /\ UNCHANGED <<received, chatOf, emoteIDs, reqQueue, errChan,
                   wpc, wreq, pipeErr, dequeues, route, panicked>>
    /\ UNCHANGED <<lvars, jvars, fvars, bvars, ivars, tvars, mvars>>

(***************************************************************************)
(* mediaWorker.                                                            *)
(***************************************************************************)

\* A receive that leaves the request in the queue.
Dequeue_KeepsHead(w) ==
    /\ ~panicked
    /\ wpc[w] = "idle"
    /\ \A v \in Workers : wpc[v] = "idle" => w <= v
    /\ reqQueue # <<>>
    /\ wreq' = [wreq EXCEPT ![w] = Head(reqQueue)]
    /\ dequeues' = [dequeues EXCEPT ![Head(reqQueue)] = Min(@ + 1, 2)]
    /\ wpc' = [wpc EXCEPT ![w] = "proc"]
    /\ UNCHANGED <<received, hpc, chatOf, emoteIDs, notices, activityCache,
                   reqQueue, errChan, pipeErr, route, panicked>>
    /\ UNCHANGED <<lvars, jvars, fvars, bvars, ivars, tvars, mvars>>

\* for req := range h.reqQueue.  The workers blocked on the queue are
\* interchangeable goroutines running the same loop: the idle worker of the
\* lowest number stands for whichever of them the runtime wakes.
Dequeue(w) ==
    /\ ~panicked
    /\ wpc[w] = "idle"
    /\ \A v \in Workers : wpc[v] = "idle" => w <= v
    /\ reqQueue # <<>>
    /\ wreq' = [wreq EXCEPT ![w] = Head(reqQueue)]
    /\ reqQueue' = Tail(reqQueue)
    /\ dequeues' = [dequeues EXCEPT ![Head(reqQueue)] = @ + 1]
    /\ wpc' = [wpc EXCEPT ![w] = "proc"]
    /\ UNCHANGED <<received, hpc, chatOf, emoteIDs, notices, activityCache,
                   errChan, pipeErr, route, panicked>>
    /\ UNCHANGED <<lvars, jvars, fvars, bvars, ivars, tvars, mvars>>

\* A branch that sends two emote ids to the single-emote function.
RouteOf_OverTwo(ids) == IF Len(ids) > 2 THEN "overlay" ELSE "single"

\* A branch that sends a single emote id to the overlay function.
RouteOf_AtLeastOne(ids) == IF Len(ids) >= 1 THEN "overlay" ELSE "single"

\* The branch on len(req.EmoteIDs).
RouteOf(ids) == IF Len(ids) > 1 THEN "overlay" ELSE "single"

\* The worker runs the request: processOverlayedEmote or processSingleEmote.
\* req.EmoteIDs[0] of an empty slice panics, and nothing recovers it.  The
\* pipeline (fetch, extract, encode, send attachment) ends with an error or
\* with the attachment sent.
Process(w, failed) ==
    /\ ~panicked
    /\ wpc[w] = "proc"
    /\ LET m == wreq[w] IN
       IF RouteOf(emoteIDs[m]) = "single" /\ Len(emoteIDs[m]) = 0
         THEN /\ panicked' = TRUE
              /\ wpc' = [wpc EXCEPT ![w] = "dead"]
              /\ UNCHANGED <<pipeErr, route, notices>>
         ELSE /\ route' = [route EXCEPT ![m] = RouteOf(emoteIDs[m])]
              /\ pipeErr' = [pipeErr EXCEPT ![m] = IF failed THEN "err" ELSE "nil"]
              /\ notices' = [notices EXCEPT ![m] =
                               IF failed THEN @ ELSE Append(@, "attachment")]
              /\ wpc' = [wpc EXCEPT ![w] = IF failed THEN "send" ELSE "close"]
              /\ UNCHANGED panicked
    /\ UNCHANGED <<received, hpc, chatOf, emoteIDs, activityCache, reqQueue,
                   errChan, wreq, dequeues>>
    /\ UNCHANGED <<lvars, jvars, fvars, bvars, ivars, tvars, mvars>>

\* req.ErrChan <- err: the channel is unbuffered, the send completes with the
\* handler's receive.
SendErr(w) ==
    /\ ~panicked
    /\ wpc[w] = "send"
    /\ hpc[wreq[w]] = "await"
    /\ errChan[wreq[w]].closes = 0
    /\ errChan' = [errChan EXCEPT ![wreq[w]].writes = @ + 1]
    /\ hpc' = [hpc EXCEPT ![wreq[w]] = "release"]
    /\ wpc' = [wpc EXCEPT ![w] = "close"]
    /\ UNCHANGED <<received, chatOf, emoteIDs, notices, activityCache, reqQueue,
                   wreq, pipeErr, dequeues, route, panicked>>
    /\ UNCHANGED <<lvars, jvars, fvars, bvars, ivars, tvars, mvars>>

\* close(req.ErrChan), and the worker takes the next request.
CloseChan(w) ==
    /\ ~panicked
    /\ wpc[w] = "close"
    /\ errChan' = [errChan EXCEPT ![wreq[w]].closes = @ + 1]
    /\ wpc' = [wpc EXCEPT ![w] = "idle"]
    /\ wreq' = [wreq EXCEPT ![w] = 0]
    /\ UNCHANGED <<received, hpc, chatOf, emoteIDs, notices, activityCache,
                   reqQueue, pipeErr, dequeues, route, panicked>>
    /\ UNCHANGED <<lvars, jvars, fvars, bvars, ivars, tvars, mvars>>

DNext ==
    \/ \E m \in Messages : HandleUpdate(m)
    \/ \E m \in Messages : SetActivity(m)
    \/ \E m \in Messages : Enqueue(m)
    \/ \E m \in Messages : RecvClosed(m)
    \/ \E m \in Messages : Release(m)
    \/ \E w \in Workers : Dequeue(w)
    \/ \E w \in Workers, failed \in BOOLEAN : Process(w, failed)
    \/ \E w \in Workers : SendErr(w)
    \/ \E w \in Workers : CloseChan(w)


(***************************************************************************)
(* The single-layer degrade loop with the two-parameter                    *)
(* downscaleVideoParameters (createVideoFromSequence of ConvertToVideo).   *)
(***************************************************************************)
defaultBitRate == 250
overlayedBitRate == defaultBitRate + 150
maxFrameRate == 30
maxResultSize == 262144

bitrateFirstThreshold == 150
bitrateSecondThreshold == 100
framerateFirstThreshold == 25
framerateSecondThreshold == 20
bitrateDropRate == 20
framerateDropRate == 2

\* A framerate step that puts the bitrate back to the first threshold.
downscaleVideoParameters2_ResetsBitrate(bitrate, framerate) ==
    IF bitrate >= bitrateFirstThreshold
      THEN [newBitrate |-> bitrate - bitrateDropRate, newFramerate |-> framerate, err |-> FALSE]
    ELSE IF framerate >= framerateFirstThreshold
      THEN [newBitrate |-> bitrateFirstThreshold,
            newFramerate |-> framerate - framerateDropRate, err |-> FALSE]
    ELSE IF bitrate >= bitrateSecondThreshold
      THEN [newBitrate |-> bitrate - bitrateDropRate, newFramerate |-> framerate, err |-> FALSE]
    ELSE IF framerate >= framerateSecondThreshold
      THEN [newBitrate |-> bitrateFirstThreshold,
            newFramerate |-> framerate - framerateDropRate, err |-> FALSE]
    ELSE [newBitrate |-> 0, newFramerate |-> 0, err |-> TRUE]

\* Thresholds compared with > where the code has >=.
downscaleVideoParameters2_StrictThresholds(bitrate, framerate) ==
    IF bitrate > bitrateFirstThreshold
      THEN [newBitrate |-> bitrate - bitrateDropRate, newFramerate |-> framerate, err |-> FALSE]
    ELSE IF framerate > framerateFirstThreshold
      THEN [newBitrate |-> framerate, newFramerate |-> framerate - framerateDropRate, err |-> FALSE]
    ELSE IF bitrate > bitrateSecondThreshold
      THEN [newBitrate |-> bitrate - bitrateDropRate, newFramerate |-> framerate, err |-> FALSE]
    ELSE IF framerate > framerateSecondThreshold
      THEN [newBitrate |-> framerate, newFramerate |-> framerate - framerateDropRate, err |-> FALSE]
    ELSE [newBitrate |-> 0, newFramerate |-> 0, err |-> TRUE]

\* A framerate step that forgets the drop.
downscaleVideoParameters2_NoDrop(bitrate, framerate) ==
    IF bitrate >= bitrateFirstThreshold
      THEN [newBitrate |-> bitrate - bitrateDropRate, newFramerate |-> framerate, err |-> FALSE]
    ELSE IF framerate >= framerateFirstThreshold
      THEN [newBitrate |-> framerate, newFramerate |-> framerate, err |-> FALSE]
    ELSE IF bitrate >= bitrateSecondThreshold
      THEN [newBitrate |-> bitrate - bitrateDropRate, newFramerate |-> framerate, err |-> FALSE]
    ELSE IF framerate >= framerateSecondThreshold
      THEN [newBitrate |-> framerate, newFramerate |-> framerate, err |-> FALSE]
    ELSE [newBitrate |-> 0, newFramerate |-> 0, err |-> TRUE]

\* downscaleVideoParameters(bitrate, framerate): the framerate branches return
\* (framerate, framerate - framerateDropRate).
downscaleVideoParameters2(bitrate, framerate) ==
    IF bitrate >= bitrateFirstThreshold
      THEN [newBitrate |-> bitrate - bitrateDropRate, newFramerate |-> framerate, err |-> FALSE]
    ELSE IF framerate >= framerateFirstThreshold
      THEN [newBitrate |-> framerate, newFramerate |-> framerate - framerateDropRate, err |-> FALSE]
    ELSE IF bitrate >= bitrateSecondThreshold
      THEN [newBitrate |-> bitrate - bitrateDropRate, newFramerate |-> framerate, err |-> FALSE]
    ELSE IF framerate >= framerateSecondThreshold
      THEN [newBitrate |-> framerate, newFramerate |-> framerate - framerateDropRate, err |-> FALSE]
    ELSE [newBitrate |-> 0, newFramerate |-> 0, err |-> TRUE]

\* Sizes os.Stat may report for the output file: at, below and above the ceiling.
Sizes == {maxResultSize - 1, maxResultSize, maxResultSize + 1}

\* The longest run of the loop from bitrate 250 and a framerate of at most 30:
\* the bitrate drops from 250 to below 150, the framerate from at most 30 to
\* below 20, and one encode attempt precedes each drop and the floor error.
LegacyMaxAttempts ==
    ((defaultBitRate - bitrateFirstThreshold) \div bitrateDropRate + 1)
    + ((maxFrameRate - framerateSecondThreshold) \div framerateDropRate + 1) + 1

NoCall == [made |-> FALSE, bitrate |-> 0, framerate |-> 0,
           newBitrate |-> 0, newFramerate |-> 0, err |-> FALSE]

\* createVideoFromSequence is entered with the framerate getInputFramerate
\* returned: min(maxFrameRate, round(fps)), fps > 0.
LInit ==
    /\ lpc = "assemble"
    /\ lbitrate = defaultBitRate
    /\ lframerate \in 0..maxFrameRate
    /\ lsize = -1
    /\ lattempts = 0
    /\ lcall = NoCall

LIdle ==
    /\ lpc = "off"
    /\ lbitrate = 0
    /\ lframerate = 0
    /\ lsize = -1
    /\ lattempts = 0
    /\ lcall = NoCall

\* m.assembleSequence(inpPath, outPath, framerate, bitrate): ffmpeg runs or fails.
LAssemble(ok) ==
    /\ lpc = "assemble"
    /\ lattempts' = Min(lattempts + 1, LegacyMaxAttempts + 1)
    /\ lpc' = IF ok THEN "stat" ELSE "encodeErr"
    /\ UNCHANGED <<lbitrate, lframerate, lsize, lcall>>
    /\ UNCHANGED <<dvars, jvars, fvars, bvars, ivars, tvars, mvars>>

\* os.Stat(outPath) fails.
LStatFails ==
    /\ lpc = "stat"
    /\ lpc' = "statErr"
    /\ UNCHANGED <<lbitrate, lframerate, lsize, lattempts, lcall>>
    /\ UNCHANGED <<dvars, jvars, fvars, bvars, ivars, tvars, mvars>>

\* os.Stat(outPath) gives the size: return nil when it fits, otherwise
\* downscaleVideoParameters and the next iteration, or its error.
LMeasure(size) ==
    /\ lpc = "stat"
    /\ lsize' = size
    /\ IF size <= maxResultSize
         THEN /\ lpc' = "ok"
              /\ UNCHANGED <<lbitrate, lframerate, lcall>>
         ELSE LET r == downscaleVideoParameters2(lbitrate, lframerate) IN
              /\ lcall' = [made |-> TRUE, bitrate |-> lbitrate, framerate |-> lframerate,
                           newBitrate |-> r.newBitrate, newFramerate |-> r.newFramerate,
                           err |-> r.err]
              /\ lbitrate' = r.newBitrate
              /\ lframerate' = r.newFramerate
              /\ lpc' = IF r.err THEN "floor" ELSE "assemble"
    /\ UNCHANGED lattempts
    /\ UNCHANGED <<dvars, jvars, fvars, bvars, ivars, tvars, mvars>>

LNext ==
    \/ \E ok \in BOOLEAN : LAssemble(ok)
    \/ LStatFails
    \/ \E size \in Sizes : LMeasure(size)

LTerminated == lpc \in {"ok", "floor", "encodeErr", "statErr"}

\* C4: a call of the two-parameter downscaleVideoParameters that returns
\* without error lowers the bitrate by 20 and keeps the framerate, or lowers
\* the framerate by 2 and keeps the bitrate.
C4_ExactlyOneComponentDrops ==
    (lcall.made /\ ~lcall.err) =>
        \/ lcall.newBitrate = lcall.bitrate - 20 /\ lcall.newFramerate = lcall.framerate
        \/ lcall.newFramerate = lcall.framerate - 2 /\ lcall.newBitrate = lcall.bitrate

\* C5: the two-parameter degrade loop ends, within a bounded number of encode
\* attempts, with success and a measured size within the ceiling, with the
\* quality-floor error or with an encode error.
C5_LegacyLoopTerminates ==
    /\ [](lattempts <= LegacyMaxAttempts)
    /\ [](lpc = "ok" => lsize <= maxResultSize)
    /\ <>LTerminated

\* The loop ran from 250/30 down to the quality floor.
C5_Witness == lpc = "floor" /\ lattempts = LegacyMaxAttempts

\* One call of the two-parameter downscaleVideoParameters on any bitrate up
\* to defaultBitRate and any framerate up to maxFrameRate.
DownscaleInit ==
    /\ lpc = "call"
    /\ lbitrate \in 0..defaultBitRate
    /\ lframerate \in 0..maxFrameRate
    /\ lsize = -1
    /\ lattempts = 0
    /\ lcall = NoCall

\* bitrate, framerate, err = m.downscaleVideoParameters(bitrate, framerate)
LDownscale ==
    /\ lpc = "call"
    /\ LET r == downscaleVideoParameters2(lbitrate, lframerate) IN
       /\ lcall' = [made |-> TRUE, bitrate |-> lbitrate, framerate |-> lframerate,
                    newBitrate |-> r.newBitrate, newFramerate |-> r.newFramerate,
                    err |-> r.err]
       /\ lbitrate' = r.newBitrate
       /\ lframerate' = r.newFramerate
    /\ lpc' = "returned"
    /\ UNCHANGED <<lsize, lattempts>>
    /\ UNCHANGED <<dvars, jvars, fvars, bvars, ivars, tvars, mvars>>

\* C25: the two-parameter downscaleVideoParameters returns the quality-floor
\* error exactly when bitrate < 100 and framerate < 20; otherwise it applies
\* the first rule that matches, in the order bitrate >= 150 (bitrate drops by
\* 20, framerate kept), framerate >= 25 (framerate drops by 2), bitrate >= 100
\* (bitrate drops by 20, framerate kept), framerate >= 20 (framerate drops
\* by 2).
C25_QualityFloorRule ==
    lcall.made =>
        LET b == lcall.bitrate
            f == lcall.framerate
            BitrateRule == lcall.newBitrate = b - 20 /\ lcall.newFramerate = f
            FramerateRule == lcall.newFramerate = f - 2 IN
        /\ lcall.err <=> (b < 100 /\ f < 20)
        /\ ~lcall.err =>
              IF b >= 150 THEN BitrateRule
              ELSE IF f >= 25 THEN FramerateRule
              ELSE IF b >= 100 THEN BitrateRule
              ELSE FramerateRule

\* The call on the largest pair below both second thresholds returned the
\* quality-floor error.
C25_Witness ==
    /\ lpc = "returned"
    /\ lcall.made
    /\ lcall.err
    /\ lcall.bitrate = 99
    /\ lcall.framerate = 19

\* C24: from bitrate 250 and a framerate of at most 30, every retry of the
\* two-parameter loop encodes with a bitrate and a framerate no higher than
\* those of the attempt before it.
C24_ParametersNonIncreasing ==
    [][lpc' = "assemble" => (lbitrate' <= lbitrate /\ lframerate' <= lframerate)]_vars

\* A retry after a framerate step: the loop is about to encode at 28 frames
\* per second, after attempts at 30.
C24_Witness ==
    /\ lpc = "assemble"
    /\ lattempts >= 7
    /\ lframerate = 28
    /\ lcall.framerate = 30
    /\ lbitrate <= lcall.bitrate

(***************************************************************************)
(* ConvertToVideo and OverlayVideos: the job directory, the timing and     *)
(* the frames of each input, and the degrade loop with the one-parameter   *)
(* downscaleVideoParameters.                                               *)
(***************************************************************************)

\* An input file, by what "magick identify -format %T" prints for it: one
\* delay per frame, in centiseconds.  total is their sum, the duration.
Assets ==
    { [frames |-> 30, total |-> 300],
      [frames |-> 50, total |-> 100],
      [frames |-> 25, total |-> 500],
      [frames |-> 1,  total |-> 250],
      [frames |-> 1,  total |-> 0] }

\* processSingleEmote passes one file to ConvertToVideo; processOverlayedEmote
\* passes one file per emote id to OverlayVideos, for the requests mediaWorker
\* sends it: those of 0 to maxOverlayedEmotes ids that its branch routes to
\* the overlay function.
JobInputs(kind) ==
    IF kind = "single"
      THEN [1..1 -> Assets]
      ELSE UNION { [1..n -> Assets] :
                     n \in { k \in 0..maxOverlayedEmotes :
                               RouteOf([i \in 1..k |-> "emote"]) = "overlay" } }

\* math.Round of a positive quotient a/b.
Round(a, b) == (2 * a + b) \div (2 * b)

\* A getInputFramerate that answers a zero total delay with framerate 1.
getInputFramerate_Fallback(asset) ==
    IF asset.total = 0 \/ asset.frames = 0
      THEN [framerate |-> 1, err |-> FALSE]
      ELSE [framerate |-> Min(maxFrameRate, Round(100 * asset.frames, asset.total)),
            err |-> FALSE]

\* getInputFramerate once identify has run: the timing error, or
\* min(maxFrameRate, round(len(lines) / (totalTime / 100))).
getInputFramerate(asset) ==
    IF asset.total = 0 \/ asset.frames = 0
      THEN [framerate |-> 0, err |-> TRUE]
      ELSE [framerate |-> Min(maxFrameRate, Round(100 * asset.frames, asset.total)),
            err |-> FALSE]

bitrateThreshold == 150

\* A drop that is still made at the threshold.
downscaleVideoParameters1_AtThreshold(bitrate) ==
    IF bitrate >= bitrateThreshold
      THEN [newBitrate |-> bitrate - bitrateDropRate, err |-> FALSE]
      ELSE [newBitrate |-> 0, err |-> TRUE]

\* downscaleVideoParameters(bitrate)
downscaleVideoParameters1(bitrate) ==
    IF bitrate > bitrateThreshold
      THEN [newBitrate |-> bitrate - bitrateDropRate, err |-> FALSE]
      ELSE [newBitrate |-> 0, err |-> TRUE]

\* The size test of the degrade loops, with the ceiling off by one.
FitsCeiling_OffByOne(size) == size - 1 <= maxResultSize

\* fInfo.Size() <= maxResultSize
FitsCeiling(size) == size <= maxResultSize

FramesPath == "frames/frame_%03d.png"

\* resPath: <resDir>/<jobID>.webm, set once per call.
ResPath == "res/job.webm"

\* The ffmpeg invocation of assembleSequence: one input, its -framerate, and
\* -b:v from the bitrate argument.  Its -vf filter has no overlay step.
assembleSequence(inp, outPath, bitrate) ==
    [inputs |-> << [loop |-> FALSE, framerate |-> inp.Framerate, path |-> inp.Path] >>,
     bv |-> bitrate,
     overlays |-> <<>>,
     out |-> outPath]

\* The labels of the filter graph: "scale<i>", "overlay<i>", and the
\* unlabelled output of the last step.
ScaleLayer(i) == [kind |-> "scale", n |-> i]

OverlayLayer(i) == [kind |-> "overlay", n |-> i]

OutLayer == [kind |-> "out", n |-> 0]

\* The overlay step the second loop of assembleSequences writes for input i
\* (counted from 0) of n: the switch on i.
overlayStr(i, n) ==
    IF i = 0
      THEN [a |-> ScaleLayer(i), b |-> ScaleLayer(i + 1), out |-> OverlayLayer(i)]
    ELSE IF i = n - 1
      THEN [a |-> OverlayLayer(i - 1), b |-> ScaleLayer(i), out |-> OutLayer]
    ELSE [a |-> OverlayLayer(i - 1), b |-> ScaleLayer(i), out |-> OverlayLayer(i)]

\* The ffmpeg invocation of assembleSequences: input 0 as it is, every later
\* input behind "-stream_loop -1", -b:v from overlayedBitRate, and the
\* -filter_complex graph: one scale step per input (input i to "scale<i>")
\* followed by the overlay steps, one per iteration of the loop.
assembleSequences(inputs, outPath, bitrate) ==
    [inputs |-> [i \in 1..Len(inputs) |->
                    [loop |-> i > 1,
                     framerate |-> inputs[i].Framerate,
                     path |-> inputs[i].Path]],
     bv |-> overlayedBitRate,
     overlays |-> [i \in 1..Len(inputs) |-> overlayStr(i - 1, Len(inputs))],
     out |-> outPath]

JInit ==
    /\ jkind \in {"single", "overlay"}
    /\ jinputs \in JobInputs(jkind)
    /\ jpc = "mkdir"
    /\ ji = 1
    /\ jframerate = 0
    /\ sequences = <<>>
    /\ jbitrate = 0
    /\ invocations = <<>>
    /\ jsize = -1
    /\ jerr = ""
    /\ jobDir = FALSE
    /\ resFile = FALSE

JIdle ==
    /\ jkind = "single"
    /\ jinputs = <<>>
    /\ jpc = "off"
    /\ ji = 1
    /\ jframerate = 0
    /\ sequences = <<>>
    /\ jbitrate = 0
    /\ invocations = <<>>
    /\ jsize = -1
    /\ jerr = ""
    /\ jobDir = FALSE
    /\ resFile = FALSE

\* An error return before the degrade loop that leaves jobs/<jobID> behind.
JReturnErr_KeepsDir(step) ==
    /\ jpc' = "failed"
    /\ jerr' = step
    /\ UNCHANGED jobDir

\* An error return before the degrade loop; the deferred os.RemoveAll of the
\* job directory runs (on a file system that lets the directory it has just
\* made be removed).
JReturnErr(step) ==
    /\ jpc' = "failed"
    /\ jerr' = step
    /\ jobDir' = FALSE

\* An error return of the degrade loop that leaves the output file behind.
JReturnLoopErr_KeepsFile(step) ==
    /\ jpc' = "failed"
    /\ jerr' = step
    /\ UNCHANGED resFile
    /\ jobDir' = FALSE

\* An error return of the degrade loop: os.Remove(resPath), then the deferred
\* os.RemoveAll of the job directory.
JReturnLoopErr(step) ==
    /\ jpc' = "failed"
    /\ jerr' = step
    /\ resFile' = FALSE
    /\ jobDir' = FALSE

\* os.MkdirAll(framesDirPath): jobs/<jobID>/frames for every input.
JMkdir(ok) ==
    /\ jpc = "mkdir"
    /\ IF ok
         THEN /\ jobDir' = TRUE
              /\ jpc' = "timing"
              /\ UNCHANGED jerr
         ELSE JReturnErr("mkdir")
    /\ UNCHANGED <<jkind, jinputs, ji, jframerate, sequences, jbitrate,
                   invocations, jsize, resFile>>
    /\ UNCHANGED <<dvars, lvars, fvars, bvars, ivars, tvars, mvars>>

\* m.getInputFramerate(inpFilePaths[i]): identify fails, or the timing is
\* derived from the delays.
JTiming(identifyOk) ==
    /\ jpc = "timing"
    /\ LET r == getInputFramerate(jinputs[ji]) IN
       IF ~identifyOk THEN JReturnErr("identify") /\ UNCHANGED jframerate
       ELSE IF r.err THEN JReturnErr("timing") /\ UNCHANGED jframerate
       ELSE /\ jframerate' = r.framerate
            /\ jpc' = "extract"
            /\ UNCHANGED <<jerr, jobDir>>
    /\ UNCHANGED <<jkind, jinputs, ji, sequences, jbitrate, invocations, jsize, resFile>>
    /\ UNCHANGED <<dvars, lvars, fvars, bvars, ivars, tvars, mvars>>

\* m.createSequence(input, seqPath); then the next input, or the degrade loop
\* with bitrate := defaultBitRate.
JExtract(ok) ==
    /\ jpc = "extract"
    /\ IF ~ok
         THEN JReturnErr("extract") /\ UNCHANGED <<sequences, ji, jbitrate>>
         ELSE /\ sequences' = Append(sequences, [Path |-> FramesPath, Framerate |-> jframerate])
              /\ IF jkind = "overlay" /\ ji < Len(jinputs)
                   THEN ji' = ji + 1 /\ jpc' = "mkdir" /\ UNCHANGED jbitrate
                   ELSE jpc' = "assemble" /\ jbitrate' = defaultBitRate /\ UNCHANGED ji
              /\ UNCHANGED <<jerr, jobDir>>
    /\ UNCHANGED <<jkind, jinputs, jframerate, invocations, jsize, resFile>>
    /\ UNCHANGED <<dvars, lvars, fvars, bvars, ivars, tvars, mvars>>

\* m.assembleSequence / m.assembleSequences: fewer than two inputs of an
\* overlay are refused; otherwise ffmpeg runs on the arguments built and
\* writes the output file, or fails.
JAssemble(ok) ==
    /\ jpc = "assemble"
    /\ IF jkind = "overlay" /\ Len(sequences) < 2
         THEN JReturnLoopErr("layers") /\ UNCHANGED invocations
         ELSE /\ invocations' = Append(invocations,
                   IF jkind = "single"
                     THEN assembleSequence(sequences[1], ResPath, jbitrate)
                     ELSE assembleSequences(sequences, ResPath, jbitrate))
              /\ IF ok
                   THEN jpc' = "stat" /\ resFile' = TRUE /\ UNCHANGED <<jerr, jobDir>>
                   ELSE JReturnLoopErr("encode")
    /\ UNCHANGED <<jkind, jinputs, ji, jframerate, sequences, jbitrate, jsize>>
    /\ UNCHANGED <<dvars, lvars, fvars, bvars, ivars, tvars, mvars>>

\* os.Stat(outPath) fails.
JStatFails ==
    /\ jpc = "stat"
    /\ JReturnLoopErr("stat")
    /\ UNCHANGED <<jkind, jinputs, ji, jframerate, sequences, jbitrate, invocations, jsize>>
    /\ UNCHANGED <<dvars, lvars, fvars, bvars, ivars, tvars, mvars>>

\* os.Stat(outPath) gives the size: return nil when it fits (the deferred
\* os.RemoveAll of the job directory runs), otherwise downscaleVideoParameters
\* and the next iteration, or its error.
JMeasure(size) ==
    /\ jpc = "stat"
    /\ jsize' = size
    /\ IF FitsCeiling(size)
         THEN /\ jpc' = "ok"
              /\ jobDir' = FALSE
              /\ UNCHANGED <<jbitrate, jerr, resFile>>
         ELSE LET r == downscaleVideoParameters1(jbitrate) IN
              IF r.err
                THEN JReturnLoopErr("floor") /\ UNCHANGED jbitrate
                ELSE /\ jbitrate' = r.newBitrate
                     /\ jpc' = "assemble"
                     /\ UNCHANGED <<jerr, jobDir, resFile>>
    /\ UNCHANGED <<jkind, jinputs, ji, jframerate, sequences, invocations>>
    /\ UNCHANGED <<dvars, lvars, fvars, bvars, ivars, tvars, mvars>>

JNext ==
    \/ \E ok \in BOOLEAN : JMkdir(ok)
    \/ \E ok \in BOOLEAN : JTiming(ok)
    \/ \E ok \in BOOLEAN : JExtract(ok)
    \/ \E ok \in BOOLEAN : JAssemble(ok)
    \/ JStatFails
    \/ \E size \in Sizes : JMeasure(size)

\* C6: ConvertToVideo and OverlayVideos return success only when the last
\* measured size of the output file is at most 262144 bytes.
C6_SuccessOnlyWithinCeiling ==
    jpc = "ok" => (Len(invocations) >= 1 /\ jsize >= 0 /\ jsize <= 262144)

\* OverlayVideos returned success after a retry, with a file of exactly the
\* ceiling's size.
C6_Witness ==
    /\ jpc = "ok"
    /\ jkind = "overlay"
    /\ Len(invocations) >= 2
    /\ jsize = 262144

\* C7: the composite encode starts at 400 kbps and every retry is invoked
\* with a lower bitrate than the attempt before it.
C7_CompositeBitrateDescends ==
    jkind = "overlay" =>
        \A k \in 1..Len(invocations) :
            /\ k = 1 => invocations[k].bv = 400
            /\ k > 1 => invocations[k].bv < invocations[k - 1].bv

\* C8: in the composite invocation every non-base layer loops, and the base
\* layer loops when some non-base layer lasts longer than it.
C8_OverlayLoopingRule ==
    jkind = "overlay" =>
        \A k \in 1..Len(invocations) :
            /\ \A i \in 2..Len(invocations[k].inputs) : invocations[k].inputs[i].loop
            /\ (\E i \in 2..Len(jinputs) : jinputs[i].total > jinputs[1].total)
                   => invocations[k].inputs[1].loop

\* C11: when ConvertToVideo or OverlayVideos has returned, with success or
\* with the error of any step, the job directory jobs/<jobID> does not exist.
C11_JobDirRemovedOnReturn ==
    jpc \in {"ok", "failed"} => ~jobDir

\* OverlayVideos returned the extraction error of its second layer, after the
\* job directory had been made.
C11_Witness ==
    /\ jpc = "failed"
    /\ jerr = "extract"
    /\ jkind = "overlay"
    /\ ji = 2
    /\ ~jobDir

\* C18: every framerate getInputFramerate returns without an error, for an
\* input of at least one frame and a positive total delay, is an integer
\* from 1 to 30.
C18_FramerateInRange ==
    /\ jpc = "extract" => jframerate \in 1..30
    /\ \A i \in 1..Len(sequences) : sequences[i].Framerate \in 1..30

\* C19, as claimed: with an input whose frame delays sum to zero,
\* ConvertToVideo fails (with the timing error once identify has run), while
\* OverlayVideos never returns the timing error and carries the layer on
\* with framerate 1.
C19_ZeroTimingAsymmetry ==
    /\ (jkind = "single" /\ jinputs[1].total = 0) =>
          /\ jpc \in {"mkdir", "timing", "failed"}
          /\ jpc = "failed" => jerr \in {"mkdir", "identify", "timing"}
    /\ jkind = "overlay" =>
          /\ jerr # "timing"
          /\ \A i \in 1..Len(sequences) :
                jinputs[i].total = 0 => sequences[i].Framerate = 1

\* C19, amended: with an input whose frame delays sum to zero, ConvertToVideo
\* and OverlayVideos alike fail at that input, with the timing error once
\* identify has run; no such input becomes a layer, and the timing error is
\* returned for such inputs only.
C19_ZeroTimingFailsBothPaths ==
    /\ jinputs[ji].total = 0 =>
          /\ jpc \in {"mkdir", "timing", "failed"}
          /\ jpc = "failed" => jerr \in {"mkdir", "identify", "timing"}
    /\ \A i \in 1..Len(sequences) : jinputs[i].total # 0
    /\ jerr = "timing" => (jpc = "failed" /\ jinputs[ji].total = 0)

\* OverlayVideos returned the timing error at its second input, after a
\* first layer with sound timing.
C19_Witness ==
    /\ jkind = "overlay"
    /\ jpc = "failed"
    /\ jerr = "timing"
    /\ ji = 2
    /\ Len(sequences) = 1

\* C22: the graph of a composite invocation of N layers has N-1 overlay
\* steps; the first takes the scaled layers 0 and 1, every later step k the
\* result of the step before it and the scaled layer k; and each scaled
\* layer is an input of exactly one step.
C22_CompositeGraphShape ==
    jkind = "overlay" =>
        \A c \in 1..Len(invocations) :
            LET g == invocations[c].overlays
                n == Len(invocations[c].inputs) IN
            /\ Len(g) = n - 1
            /\ g[1].a = ScaleLayer(0) /\ g[1].b = ScaleLayer(1)
            /\ \A k \in 2..Len(g) : g[k].a = g[k - 1].out /\ g[k].b = ScaleLayer(k)
            /\ \A i \in 0..(n - 1) :
                  Cardinality({k \in 1..Len(g) : g[k].a = ScaleLayer(i)
                                                 \/ g[k].b = ScaleLayer(i)}) = 1

\* C23: in an overlay job the frame sequences of different layers are under
\* different paths, in the sequences built and in every composite invocation.
C23_LayerFramePathsDiffer ==
    jkind = "overlay" =>
        /\ \A i, j \in 1..Len(sequences) :
              i # j => sequences[i].Path # sequences[j].Path
        /\ \A c \in 1..Len(invocations) :
              \A i, j \in 1..Len(invocations[c].inputs) :
                  i # j => invocations[c].inputs[i].path # invocations[c].inputs[j].path

\* C26: the bitrate-only loop makes at most 6 encode attempts, none below
\* 150; in ConvertToVideo the attempts are at 250, 230, 210, 190, 170, 150 in
\* that order; the bitrate is lowered, by 20, only from above 150, and the
\* quality-floor error comes at 150, after the sixth attempt.
C26_BitrateOnlyLadder ==
    /\ Len(invocations) <= 6
    /\ \A k \in 1..Len(invocations) : invocations[k].bv >= 150
    /\ jkind = "single" =>
          \A k \in 1..Len(invocations) : invocations[k].bv = 250 - 20 * (k - 1)
    /\ jpc \in {"assemble", "stat"} =>
          jbitrate = 250 - 20 * (Len(invocations) - (IF jpc = "stat" THEN 1 ELSE 0))
    /\ jerr = "floor" => (jbitrate = 150 /\ Len(invocations) = 6)
    /\ (jpc = "failed" /\ Len(invocations) = 6 /\ jsize > maxResultSize
           /\ jerr \notin {"encode", "stat"}) => jerr = "floor"

\* ConvertToVideo went down the whole ladder and returned the quality-floor
\* error.
C26_Witness ==
    /\ jkind = "single"
    /\ jpc = "failed"
    /\ jerr = "floor"
    /\ Len(invocations) = 6
    /\ invocations[6].bv = 150

\* C27: when ConvertToVideo or OverlayVideos has returned an error after at
\* least one encode attempt, no file is left at the result path; and all the
\* encode attempts of the job write to that one path.
C27_OutputRemovedOnFailure ==
    /\ (jpc = "failed" /\ Len(invocations) >= 1) => ~resFile
    /\ \A k \in 1..Len(invocations) : invocations[k].out = ResPath

\* OverlayVideos returned the quality-floor error after six attempts that
\* each wrote the output file.
C27_Witness ==
    /\ jkind = "overlay"
    /\ jpc = "failed"
    /\ jerr = "floor"
    /\ Len(invocations) = 6
    /\ ~resFile

\* C28: for the requests mediaWorker routes to the overlay function,
\* assembleSequences is never called with fewer than 2 layers and the "not
\* enough videos to merge" error is never returned.
C28_InsufficientLayersUnreachable ==
    /\ jerr # "layers"
    /\ jkind = "overlay" =>
          /\ Len(jinputs) >= 2
          /\ jpc \in {"assemble", "stat", "ok"} => Len(sequences) >= 2
          /\ \A c \in 1..Len(invocations) : Len(invocations[c].inputs) >= 2

\* The composite builder was invoked for an overlay job of exactly 2 layers.
C28_Witness ==
    /\ jkind = "overlay"
    /\ Len(jinputs) = 2
    /\ Len(invocations) >= 1
    /\ Len(invocations[1].inputs) = 2

(***************************************************************************)
(* processOverlayedEmote: one goroutine of an errgroup per emote id, all   *)
(* of them assigning and reading the variable err of the enclosing call.   *)
(***************************************************************************)
Fetches == 1..maxOverlayedEmotes

\* The error of the fetch of emote i.
FetchErr(i) == <<"fetch1", "fetch2", "fetch3">>[i]

FInit ==
    /\ fn \in 2..maxOverlayedEmotes
    /\ fpc = "wait"
    /\ gpc = [i \in Fetches |-> IF i <= fn THEN "go" ELSE "none"]
    /\ fetched = [i \in Fetches |-> "none"]
    /\ webpPaths = [i \in Fetches |-> ""]
    /\ ferr = "nil"
    /\ gret = [i \in Fetches |-> "none"]
    /\ egErr = "nil"
    /\ overlayCalled = FALSE
    /\ fret = "none"
    /\ webpFiles = [i \in Fetches |-> FALSE]
    /\ resVideo = FALSE

FIdle ==
    /\ fn = 0
    /\ fpc = "off"
    /\ gpc = [i \in Fetches |-> "none"]
    /\ fetched = [i \in Fetches |-> "none"]
    /\ webpPaths = [i \in Fetches |-> ""]
    /\ ferr = "nil"
    /\ gret = [i \in Fetches |-> "none"]
    /\ egErr = "nil"
    /\ overlayCalled = FALSE
    /\ fret = "none"
    /\ webpFiles = [i \in Fetches |-> FALSE]
    /\ resVideo = FALSE

\* How a call of DownloadWebp ends: with the file written ("ok"); with an
\* error before os.Create, from the request, the status, the content type or
\* os.Create itself ("refused"); with an error of io.Copy, after os.Create
\* ("copy"); or with more than maxDownloadSize bytes written, the file then
\* removed ("large").
FetchOutcomes == {"ok", "refused", "copy", "large"}

\* Whether the file DownloadWebp created is on disk when it returns.
FileLeft(outcome) == outcome \in {"ok", "copy"}

\* The deferred cleanup of processOverlayedEmote: os.RemoveAll(resFilePath)
\* and os.RemoveAll(webpPaths[i]) for every i; os.RemoveAll("") removes
\* nothing.
FCleanup(resFilePath) ==
    /\ webpFiles' = [i \in Fetches |-> IF webpPaths[i] # "" THEN FALSE ELSE webpFiles[i]]
    /\ resVideo' = IF resFilePath # "" THEN FALSE ELSE resVideo

\* webpPaths[i], err = h.apis.SevenTV.DownloadWebp(emoteIDs[i]): the call
\* returns a path and nil, or "" and its error; both are stored.
FDownload(i, outcome) ==
    /\ gpc[i] = "go"
    /\ fetched' = [fetched EXCEPT ![i] = IF outcome = "ok" THEN "ok" ELSE "fail"]
    /\ webpPaths' = [webpPaths EXCEPT ![i] = IF outcome = "ok" THEN "webp" ELSE ""]
    /\ webpFiles' = [webpFiles EXCEPT ![i] = FileLeft(outcome)]
    /\ ferr' = IF outcome = "ok" THEN "nil" ELSE FetchErr(i)
    /\ gpc' = [gpc EXCEPT ![i] = "assigned"]
    /\ UNCHANGED <<fpc, fn, gret, egErr, overlayCalled, fret, resVideo>>
    /\ UNCHANGED <<dvars, lvars, jvars, bvars, ivars, tvars, mvars>>

\* return err: the goroutine reads err as it is now; the errgroup keeps the
\* first error returned to it (errOnce).
FReturn(i) ==
    /\ gpc[i] = "assigned"
    /\ gret' = [gret EXCEPT ![i] = ferr]
    /\ egErr' = IF ferr # "nil" /\ egErr = "nil" THEN ferr ELSE egErr
    /\ gpc' = [gpc EXCEPT ![i] = "returned"]
    /\ UNCHANGED <<fpc, fn, fetched, webpPaths, ferr, overlayCalled, fret,
                   webpFiles, resVideo>>
    /\ UNCHANGED <<dvars, lvars, jvars, bvars, ivars, tvars, mvars>>

\* err = eg.Wait(): every goroutine has returned; an error ends the call.
FWait ==
    /\ fpc = "wait"
    /\ \A i \in 1..fn : gpc[i] = "returned"
    /\ ferr' = egErr
    /\ IF egErr # "nil"
         THEN fpc' = "returned" /\ fret' = "err" /\ FCleanup("")
         ELSE fpc' = "overlay" /\ UNCHANGED <<fret, webpFiles, resVideo>>
    /\ UNCHANGED <<fn, gpc, fetched, webpPaths, gret, egErr, overlayCalled>>
    /\ UNCHANGED <<dvars, lvars, jvars, bvars, ivars, tvars, mvars>>

\* resFilePath, err = h.services.Media.OverlayVideos(webpPaths).  identify
\* fails on an empty path, so the call can succeed only on fetched files.
\* A successful call leaves the result video, a failed one nothing.
FOverlay(ok) ==
    /\ fpc = "overlay"
    /\ ok => \A i \in 1..fn : webpPaths[i] # ""
    /\ overlayCalled' = TRUE
    /\ ferr' = IF ok THEN "nil" ELSE "overlay"
    /\ IF ok
         THEN fpc' = "send" /\ resVideo' = TRUE /\ UNCHANGED <<fret, webpFiles>>
         ELSE fpc' = "returned" /\ fret' = "err" /\ FCleanup("")
    /\ UNCHANGED <<fn, gpc, fetched, webpPaths, gret, egErr>>
    /\ UNCHANGED <<dvars, lvars, jvars, bvars, ivars, tvars, mvars>>

\* err = h.apis.TgBot.SendAttachment(attachment)
FSend(ok) ==
    /\ fpc = "send"
    /\ ferr' = IF ok THEN "nil" ELSE "send"
    /\ fpc' = "returned"
    /\ fret' = IF ok THEN "nil" ELSE "err"
    /\ FCleanup("res")
    /\ UNCHANGED <<fn, gpc, fetched, webpPaths, gret, egErr, overlayCalled>>
    /\ UNCHANGED <<dvars, lvars, jvars, bvars, ivars, tvars, mvars>>

FNext ==
    \/ \E i \in Fetches, outcome \in FetchOutcomes : FDownload(i, outcome)
    \/ \E i \in Fetches : FReturn(i)
    \/ FWait
    \/ \E ok \in BOOLEAN : FOverlay(ok)
    \/ \E ok \in BOOLEAN : FSend(ok)

\* C10: when one of the parallel fetches fails, processOverlayedEmote never
\* calls OverlayVideos and returns an error.
C10_FailedFetchStopsJob ==
    (\E i \in 1..fn : fetched[i] = "fail") =>
        /\ ~overlayCalled
        /\ fpc = "returned" => fret = "err"

\* C30: when processOverlayedEmote has returned, with success or with any
\* error, no file a fetch created and no result video is left on disk.
C30_NoFileLeftAfterJob ==
    fpc = "returned" =>
        /\ \A i \in Fetches : ~webpFiles[i]
        /\ ~resVideo

(***************************************************************************)
(* The request queue under a burst of submissions.  Every submission of    *)
(* the burst is a valid one of a chat of its own, so each is admitted; the *)
(* requests are told apart by nothing the queue looks at, and the          *)
(* dispatcher is followed by how many of them are at each place.           *)
(***************************************************************************)
BInit ==
    /\ barrived = 0
    /\ bpending = 0
    /\ bqueue = 0
    /\ bbusy = 0
    /\ bresolved = 0
    /\ bexternal = 0

BIdle ==
    /\ barrived = 0
    /\ bpending = 0
    /\ bqueue = 0
    /\ bbusy = 0
    /\ bresolved = 0
    /\ bexternal = 0

\* CreateVideoFromEmote up to the request it builds: the handler is at the
\* send on h.reqQueue.
BAdmit ==
    /\ barrived < BurstSize
    /\ barrived' = barrived + 1
    /\ bpending' = bpending + 1
    /\ UNCHANGED <<bqueue, bbusy, bresolved, bexternal>>
    /\ UNCHANGED <<dvars, lvars, jvars, fvars, ivars, tvars, mvars>>

\* A send that gives the request up when the buffer is full.
BEnqueue_DropsWhenFull ==
    /\ bpending > 0
    /\ bpending' = bpending - 1
    /\ bqueue' = IF bqueue < reqQueueCap THEN bqueue + 1 ELSE bqueue
    /\ UNCHANGED <<barrived, bbusy, bresolved, bexternal>>
    /\ UNCHANGED <<dvars, lvars, jvars, fvars, ivars, tvars, mvars>>

\* h.reqQueue <- req: a plain send on a channel with a buffer of 50; it
\* completes when the buffer has room and blocks until then.
BEnqueue ==
    /\ bpending > 0
    /\ bqueue < reqQueueCap
    /\ bpending' = bpending - 1
    /\ bqueue' = bqueue + 1
    /\ UNCHANGED <<barrived, bbusy, bresolved, bexternal>>
    /\ UNCHANGED <<dvars, lvars, jvars, fvars, ivars, tvars, mvars>>

\* A receive whose request is run in a goroutine of its own, the worker
\* going back to the queue at once.
BDequeue_Detached ==
    /\ bqueue > 0
    /\ bqueue' = bqueue - 1
    /\ bbusy' = bbusy + 1
    /\ UNCHANGED <<barrived, bpending, bresolved, bexternal>>
    /\ UNCHANGED <<dvars, lvars, jvars, fvars, ivars, tvars, mvars>>

\* for req := range h.reqQueue, in one of the workerCount workers.
BDequeue ==
    /\ bqueue > 0
    /\ bbusy < workerCount
    /\ bqueue' = bqueue - 1
    /\ bbusy' = bbusy + 1
    /\ UNCHANGED <<barrived, bpending, bresolved, bexternal>>
    /\ UNCHANGED <<dvars, lvars, jvars, fvars, ivars, tvars, mvars>>

\* A worker that holds a request starts magick or ffmpeg and waits for it:
\* createSequence, getInputFramerate, assembleSequence and assembleSequences
\* each run one command, with cmd.Run or cmd.Output.
BExecStart ==
    /\ bexternal < bbusy
    /\ bexternal' = bexternal + 1
    /\ UNCHANGED <<barrived, bpending, bqueue, bbusy, bresolved>>
    /\ UNCHANGED <<dvars, lvars, jvars, fvars, ivars, tvars, mvars>>

\* The command exits and cmd.Run returns.
BExecEnd ==
    /\ bexternal > 0
    /\ bexternal' = bexternal - 1
    /\ UNCHANGED <<barrived, bpending, bqueue, bbusy, bresolved>>
    /\ UNCHANGED <<dvars, lvars, jvars, fvars, ivars, tvars, mvars>>

\* The worker, back from its process function, closes the result channel.
BResolve ==
    /\ bbusy > bexternal
    /\ bbusy' = bbusy - 1
    /\ bresolved' = bresolved + 1
    /\ UNCHANGED <<barrived, bpending, bqueue, bexternal>>
    /\ UNCHANGED <<dvars, lvars, jvars, fvars, ivars, tvars, mvars>>

BNext ==
    \/ BAdmit
    \/ BEnqueue
    \/ BDequeue
    \/ BExecStart
    \/ BExecEnd
    \/ BResolve

\* C29: at most 3 requests are with a worker and at most 3 magick or ffmpeg
\* commands are running, at every moment.
C29_AtMostThreeInProgress ==
    /\ bbusy <= 3
    /\ bexternal <= 3
    /\ bexternal <= bbusy

\* Three commands are running, one per worker, while requests wait in the
\* queue.
C29_Witness ==
    /\ bbusy = 3
    /\ bexternal = 3
    /\ bqueue > 0

\* C12: the request queue never holds more than 50 requests; no admitted
\* request is lost (each is waiting to be sent, in the queue, with a worker
\* or resolved); and a handler waiting to send can send as soon as the queue
\* holds fewer than 50.
C12_Backpressure ==
    /\ bqueue <= 50
    /\ barrived = bpending + bqueue + bbusy + bresolved
    /\ (bpending > 0 /\ bqueue < 50) => ENABLED BEnqueue
    /\ (bpending > 0 /\ bqueue = 50) => ~ENABLED BEnqueue

\* A handler is blocked on the full queue while every worker is busy, and
\* earlier requests have been resolved.
C12_Witness ==
    /\ bqueue = 50
    /\ bbusy = workerCount
    /\ bpending > 0
    /\ bresolved > 0

(***************************************************************************)
(* The input handling of CreateVideoFromEmote on one message, step by      *)
(* step: strings.Fields, the truncation, the validation loop.  The texts   *)
(* hold up to MaxInputLen tokens and two different valid emote URLs.       *)
(***************************************************************************)
InputTokens ==
    Tokens \cup
    { [prefix |-> TRUE, uri |-> TRUE, parts |-> 2, idLen |-> emoteIdLength, id |-> "emote2"] }

InputTexts == UNION { [1..n -> InputTokens] : n \in 0..MaxInputLen }

IInit ==
    /\ itext \in InputTexts
    /\ ipc = "fields"
    /\ iuserInput = <<>>
    /\ ii = 1
    /\ iemoteIDs = <<>>

IIdle ==
    /\ itext = <<>>
    /\ ipc = "off"
    /\ iuserInput = <<>>
    /\ ii = 1
    /\ iemoteIDs = <<>>

\* userInput := strings.Fields(message.Text), then
\* userInput = userInput[:min(len(userInput), maxOverlayedEmotes)]
ITruncate ==
    /\ ipc = "fields"
    /\ iuserInput' = Truncate(itext)
    /\ ipc' = "loop"
    /\ UNCHANGED <<itext, ii, iemoteIDs>>
    /\ UNCHANGED <<dvars, lvars, jvars, fvars, bvars, tvars, mvars>>

\* One iteration of the validation loop: the token is refused ("Invalid
\* emote URL", return) or its emote id is appended.
IValidate ==
    /\ ipc = "loop"
    /\ ii <= Len(iuserInput)
    /\ IF validateUserInput(iuserInput[ii]) = ""
         THEN /\ ipc' = "rejected"
              /\ UNCHANGED <<ii, iemoteIDs>>
         ELSE /\ iemoteIDs' = Append(iemoteIDs, validateUserInput(iuserInput[ii]))
              /\ ii' = ii + 1
              /\ UNCHANGED ipc
    /\ UNCHANGED <<itext, iuserInput>>
    /\ UNCHANGED <<dvars, lvars, jvars, fvars, bvars, tvars, mvars>>

\* The loop is over: the request is built with EmoteIDs = emoteIDs and sent
\* on the queue.
IAccept ==
    /\ ipc = "loop"
    /\ ii > Len(iuserInput)
    /\ ipc' = "accepted"
    /\ UNCHANGED <<itext, iuserInput, ii, iemoteIDs>>
    /\ UNCHANGED <<dvars, lvars, jvars, fvars, bvars, tvars, mvars>>

INext ==
    \/ ITruncate
    \/ IValidate
    \/ IAccept

\* A token is a well-formed emote URL.
TokenOk(t) == t.prefix /\ t.uri /\ t.parts = 2 /\ t.idLen = 26

\* C16: a text is accepted exactly when each of its first 3 tokens is a
\* well-formed emote URL, whatever comes after them, and the request then
\* carries the emote ids of those tokens, at most 3, in the order of the text.
C16_TruncatedToFirstThree ==
    LET n == IF Len(itext) <= 3 THEN Len(itext) ELSE 3 IN
    /\ ipc = "accepted" =>
          /\ \A k \in 1..n : TokenOk(itext[k])
          /\ Len(iemoteIDs) = n
          /\ Len(iemoteIDs) <= 3
          /\ \A k \in 1..n : iemoteIDs[k] = itext[k].id
    /\ ipc = "rejected" => \E k \in 1..n : ~TokenOk(itext[k])

\* A text of four tokens was accepted although its fourth token is not an
\* emote URL; its first two emote ids differ.
C16_Witness ==
    /\ ipc = "accepted"
    /\ Len(itext) = 4
    /\ ~TokenOk(itext[4])
    /\ iemoteIDs[1] # iemoteIDs[2]

(***************************************************************************)
(* ConvertToTelegramVideo of service/media: one call.  err is a named      *)
(* result; the deferred function assigns it after the return statement     *)
(* has set the results.  The encode loop it calls is the two-parameter     *)
(* createVideoFromSequence modelled above.                                 *)
(***************************************************************************)

TInit ==
    /\ tpc = "removeFrames"
    /\ tasset \in Assets
    /\ tbitrate = 0
    /\ terr = "nil"
    /\ tresPath = ""
    /\ tfailed = {}
    /\ tran = {}

TIdle ==
    /\ tpc = "off"
    /\ tasset = [frames |-> 0, total |-> 0]
    /\ tbitrate = 0
    /\ terr = "nil"
    /\ tresPath = ""
    /\ tfailed = {}
    /\ tran = {}

\* return "", errors.Wrap(err, errMsg) after a failed step: the results are
\* set and the deferred function is next.
TReturnErr(step) ==
    /\ tfailed' = tfailed \cup {step}
    /\ terr' = "err"
    /\ tresPath' = ""
    /\ tpc' = "deferred"

\* The deferred function: err = os.RemoveAll(filepath.Join(m.jobsDir, jobID)).
TDeferred(ok) ==
    /\ tpc = "deferred"
    /\ terr' = IF ok THEN "nil" ELSE "removeErr"
    /\ tpc' = "returned"
    /\ UNCHANGED <<tasset, tbitrate, tresPath, tfailed, tran>>
    /\ UNCHANGED <<dvars, lvars, jvars, fvars, bvars, ivars, mvars>>

\* err = os.RemoveAll(framesDirPath), and the return on its error.
TRemoveFrames(ok) ==
    /\ tpc = "removeFrames"
    /\ tran' = tran \cup {"removeFrames"}
    /\ IF ok
         THEN tpc' = "timing" /\ terr' = "nil" /\ UNCHANGED <<tresPath, tfailed>>
         ELSE TReturnErr("removeFrames")
    /\ UNCHANGED <<tasset, tbitrate>>
    /\ UNCHANGED <<dvars, lvars, jvars, fvars, bvars, ivars, mvars>>

\* bitrate, err := m.getInputFramerate(inpFilePath): identify fails, or the
\* timing is derived from its output.  The error is stored and not tested.
TTiming(identifyOk) ==
    /\ tpc = "timing"
    /\ LET r == IF identifyOk THEN getInputFramerate(tasset)
                              ELSE [framerate |-> 0, err |-> TRUE] IN
         /\ tbitrate' = r.framerate
         /\ terr' = IF r.err THEN "err" ELSE "nil"
         /\ tfailed' = IF r.err THEN tfailed \cup {"timing"} ELSE tfailed
    /\ tran' = tran \cup {"timing"}
    /\ tpc' = "mkdir"
    /\ UNCHANGED <<tasset, tresPath>>
    /\ UNCHANGED <<dvars, lvars, jvars, fvars, bvars, ivars, mvars>>

\* err = os.MkdirAll(framesDirPath, os.ModePerm), and the return on its error.
TMkdir(ok) ==
    /\ tpc = "mkdir"
    /\ tran' = tran \cup {"mkdir"}
    /\ IF ok
         THEN tpc' = "extract" /\ terr' = "nil" /\ UNCHANGED <<tresPath, tfailed>>
         ELSE TReturnErr("mkdir")
    /\ UNCHANGED <<tasset, tbitrate>>
    /\ UNCHANGED <<dvars, lvars, jvars, fvars, bvars, ivars, mvars>>

\* err = m.createSequence(...), and the return on its error.
TExtract(ok) ==
    /\ tpc = "extract"
    /\ tran' = tran \cup {"extract"}
    /\ IF ok
         THEN tpc' = "encode" /\ terr' = "nil" /\ UNCHANGED <<tresPath, tfailed>>
         ELSE TReturnErr("extract")
    /\ UNCHANGED <<tasset, tbitrate>>
    /\ UNCHANGED <<dvars, lvars, jvars, fvars, bvars, ivars, mvars>>

\* m.createVideoFromSequence(..., resFilePath, bitrate) is entered: its
\* framerate parameter is the variable bitrate, its bitrate defaultBitRate.
TEncode ==
    /\ tpc = "encode"
    /\ tran' = tran \cup {"encode"}
    /\ tpc' = "encoding"
    /\ lpc' = "assemble"
    /\ lbitrate' = defaultBitRate
    /\ lframerate' = tbitrate
    /\ UNCHANGED <<lsize, lattempts, lcall>>
    /\ UNCHANGED <<tasset, tbitrate, terr, tresPath, tfailed>>
    /\ UNCHANGED <<dvars, jvars, fvars, bvars, ivars, mvars>>

\* createVideoFromSequence has returned: return resFilePath, nil, or the
\* return on its error.
TEncodeReturn ==
    /\ tpc = "encoding"
    /\ LTerminated
    /\ IF lpc = "ok"
         THEN /\ tpc' = "deferred"
              /\ terr' = "nil"
              /\ tresPath' = "res"
              /\ UNCHANGED tfailed
         ELSE TReturnErr("encode")
    /\ UNCHANGED <<tasset, tbitrate, tran>>
    /\ UNCHANGED <<dvars, lvars, jvars, fvars, bvars, ivars, mvars>>

TNext ==
    \/ \E ok \in BOOLEAN : TRemoveFrames(ok)
    \/ \E identifyOk \in BOOLEAN : TTiming(identifyOk)
    \/ \E ok \in BOOLEAN : TMkdir(ok)
    \/ \E ok \in BOOLEAN : TExtract(ok)
    \/ TEncode
    \/ \E ok \in BOOLEAN : LAssemble(ok)
    \/ LStatFails
    \/ \E size \in Sizes : LMeasure(size)
    \/ TEncodeReturn
    \/ \E ok \in BOOLEAN : TDeferred(ok)

\* C31: a call of ConvertToTelegramVideo in which the timing derivation, the
\* frame extraction or the encode loop failed returns a non-nil error; no
\* call with a failed step returns a nil error with an empty result path;
\* and after a failed timing derivation no extraction or encode is run.
C31_ConvertErrorsPropagate ==
    /\ (tpc = "returned" /\ tfailed \cap {"timing", "extract", "encode"} # {})
          => terr # "nil"
    /\ (tpc = "returned" /\ tfailed # {})
          => ~(terr = "nil" /\ tresPath = "")
    /\ "timing" \in tfailed => tran \cap {"extract", "encode"} = {}

(***************************************************************************)
(* Maintenance mode: handleUpdate goroutines of the server, one per        *)
(* update, and the admission part of CreateVideoFromEmote they call.  The  *)
(* critical sections of s.mu are one read or one write each, so each is    *)
(* one step.  The updates come from different chats, so the activity       *)
(* lookup of CreateVideoFromEmote finds no entry.                          *)
(***************************************************************************)

NumUpdates == 3

Updates == 1..NumUpdates

\* What an update is: a message that is not a command, the maintenance
\* command of an admin, the maintenance command of anyone else.
UpdateKinds == {"message", "adminMaintenance", "otherMaintenance"}

MInit ==
    /\ isInMaintenance = FALSE
    /\ mpc = [u \in Updates |-> "none"]
    /\ mkind = [u \in Updates |-> "none"]
    /\ mactivity = {}
    /\ mqueue = {}
    /\ mduring = {}

MIdle ==
    /\ isInMaintenance = FALSE
    /\ mpc = <<>>
    /\ mkind = <<>>
    /\ mactivity = {}
    /\ mqueue = {}
    /\ mduring = {}

\* case update := <-updatesChan: go s.handleUpdate(&update).  The updates
\* are received one after the other.
MReceive(u, kind) ==
    /\ mpc[u] = "none"
    /\ \A v \in Updates : v < u => mpc[v] # "none"
    /\ mkind' = [mkind EXCEPT ![u] = kind]
    /\ mpc' = [mpc EXCEPT ![u] = "started"]
    /\ UNCHANGED <<isInMaintenance, mactivity, mqueue, mduring>>
    /\ UNCHANGED <<dvars, lvars, jvars, fvars, bvars, ivars, tvars>>

\* switchMaintenanceStatus: s.isInMaintenance = !s.isInMaintenance under
\* s.mu.Lock().
switchMaintenanceStatus(status) == ~status

\* The command branch of handleUpdate: an admin toggles the mode, anyone
\* else returns.
MCommand(u) ==
    /\ mpc[u] = "started"
    /\ mkind[u] \in {"adminMaintenance", "otherMaintenance"}
    /\ isInMaintenance' = IF mkind[u] = "adminMaintenance"
                            THEN switchMaintenanceStatus(isInMaintenance)
                            ELSE isInMaintenance
    /\ mpc' = [mpc EXCEPT ![u] = "done"]
    /\ UNCHANGED <<mkind, mactivity, mqueue, mduring>>
    /\ UNCHANGED <<dvars, lvars, jvars, fvars, bvars, ivars, tvars>>

\* s.mu.RLock(); if s.isInMaintenance { ... return }; s.mu.RUnlock(): the
\* read of the flag.  The lock is released before CreateVideoFromEmote.
MCheck(u) ==
    /\ mpc[u] = "started"
    /\ mkind[u] = "message"
    /\ mpc' = [mpc EXCEPT ![u] = IF isInMaintenance THEN "refused" ELSE "passed"]
    /\ UNCHANGED <<isInMaintenance, mkind, mactivity, mqueue, mduring>>
    /\ UNCHANGED <<dvars, lvars, jvars, fvars, bvars, ivars, tvars>>

\* CreateVideoFromEmote up to h.activityCache.Set: the input is rejected, or
\* the requester is inserted in the activity cache.
MSetActivity(u, valid) ==
    /\ mpc[u] = "passed"
    /\ IF valid
         THEN /\ mactivity' = mactivity \cup {u}
              /\ mduring' = IF isInMaintenance THEN mduring \cup {u} ELSE mduring
              /\ mpc' = [mpc EXCEPT ![u] = "set"]
         ELSE /\ mpc' = [mpc EXCEPT ![u] = "rejected"]
              /\ UNCHANGED <<mactivity, mduring>>
    /\ UNCHANGED <<isInMaintenance, mkind, mqueue>>
    /\ UNCHANGED <<dvars, lvars, jvars, fvars, bvars, ivars, tvars>>

\* h.reqQueue <- req.  The queue holds reqQueueCap requests, more than
\* there are updates, so the send does not block.
MEnqueue(u) ==
    /\ mpc[u] = "set"
    /\ mqueue' = mqueue \cup {u}
    /\ mduring' = IF isInMaintenance THEN mduring \cup {u} ELSE mduring
    /\ mpc' = [mpc EXCEPT ![u] = "queued"]
    /\ UNCHANGED <<isInMaintenance, mkind, mactivity>>
    /\ UNCHANGED <<dvars, lvars, jvars, fvars, bvars, ivars, tvars>>

\* err = <-req.ErrChan and the return: a worker resolved the request, the
\* deferred activityCache.Delete runs.
MRelease(u) ==
    /\ mpc[u] = "queued"
    /\ mactivity' = mactivity \ {u}
    /\ mpc' = [mpc EXCEPT ![u] = "done"]
    /\ UNCHANGED <<isInMaintenance, mkind, mqueue, mduring>>
    /\ UNCHANGED <<dvars, lvars, jvars, fvars, bvars, ivars, tvars>>

MNext ==
    \/ \E u \in Updates, kind \in UpdateKinds : MReceive(u, kind)
    \/ \E u \in Updates : MCommand(u)
    \/ \E u \in Updates : MCheck(u)
    \/ \E u \in Updates, valid \in BOOLEAN : MSetActivity(u, valid)
    \/ \E u \in Updates : MEnqueue(u)
    \/ \E u \in Updates : MRelease(u)

\* C32: no requester is inserted in the activity cache and no request is
\* sent to the queue in a state where isInMaintenance is true.
C32_NoAdmissionDuringMaintenance == mduring = {}

(***************************************************************************)
(* Specifications.                                                         *)
(***************************************************************************)

\* The dispatcher: updates arrive, handlers and workers run concurrently.
Init == DInit /\ LIdle /\ JIdle /\ FIdle /\ BIdle /\ IIdle /\ TIdle /\ MIdle

Next == DNext

Spec == Init /\ [][Next]_vars

\* The dispatcher with goroutines that keep running: a handler or a worker
\* that can take its next step takes it, and every call it makes returns.
\* Nothing obliges an update to arrive.
Fairness ==
    /\ \A m \in Messages :
          /\ WF_vars(SetActivity(m))
          /\ WF_vars(Enqueue(m))
          /\ WF_vars(RecvClosed(m))
          /\ WF_vars(Release(m))
    /\ \A w \in Workers :
          /\ WF_vars(Dequeue(w))
          /\ WF_vars(\E failed \in BOOLEAN : Process(w, failed))
          /\ WF_vars(SendErr(w))
          /\ WF_vars(CloseChan(w))

FairSpec == Init /\ [][Next]_vars /\ Fairness

\* The two-parameter degrade loop.
LegacyInit == DIdle /\ LInit /\ JIdle /\ FIdle /\ BIdle /\ IIdle /\ TIdle /\ MIdle

LegacySpec == LegacyInit /\ [][LNext]_vars

\* The loop is straight-line code of one goroutine: it keeps running.
LegacyFairSpec == LegacyInit /\ [][LNext]_vars /\ WF_vars(LNext)

\* One call of the two-parameter downscaleVideoParameters.
DownscaleSpecInit == DIdle /\ DownscaleInit /\ JIdle /\ FIdle /\ BIdle /\ IIdle /\ TIdle /\ MIdle

DownscaleSpec == DownscaleSpecInit /\ [][LDownscale]_vars

\* One call of ConvertToVideo or OverlayVideos.
JobInit == DIdle /\ LIdle /\ JInit /\ FIdle /\ BIdle /\ IIdle /\ TIdle /\ MIdle

JobSpec == JobInit /\ [][JNext]_vars

\* One call of processOverlayedEmote.
FetchInit == DIdle /\ LIdle /\ JIdle /\ FInit /\ BIdle /\ IIdle /\ TIdle /\ MIdle

FetchSpec == FetchInit /\ [][FNext]_vars

\* The input handling of one message.
InputInit == DIdle /\ LIdle /\ JIdle /\ FIdle /\ BIdle /\ IInit /\ TIdle /\ MIdle

InputSpec == InputInit /\ [][INext]_vars

\* One call of ConvertToTelegramVideo.
TelegramInit == DIdle /\ LIdle /\ JIdle /\ FIdle /\ BIdle /\ IIdle /\ TInit /\ MIdle

TelegramSpec == TelegramInit /\ [][TNext]_vars

\* The server's handlers with maintenance toggles.
MaintenanceInit == DIdle /\ LIdle /\ JIdle /\ FIdle /\ BIdle /\ IIdle /\ TIdle /\ MInit

MaintenanceSpec == MaintenanceInit /\ [][MNext]_vars

\* A burst of submissions against the queue and the worker pool.
BurstInit == DIdle /\ LIdle /\ JIdle /\ FIdle /\ BInit /\ IIdle /\ TIdle /\ MIdle

BurstSpec == BurstInit /\ [][BNext]_vars

(***************************************************************************)
(* Properties of the dispatcher.                                           *)
(***************************************************************************)
Queued(m) == \E i \in 1..Len(reqQueue) : reqQueue[i] = m

HeldByWorker(m) == \E w \in Workers : wreq[w] = m /\ wpc[w] \in {"proc", "send", "close"}

\* Admitted and not yet resolved: blocked on the enqueue, in the queue, or
\* with a worker that has neither written to nor closed the result channel.
Unresolved(m) ==
    \/ hpc[m] = "enq" /\ Len(reqQueue) >= reqQueueCap
    \/ Queued(m)
    \/ HeldByWorker(m) /\ errChan[m].writes = 0 /\ errChan[m].closes = 0

\* C1: single-flight: no two unresolved requests belong to the same requester.
\* Stated for requests that carry at least one emote id, the requests the
\* dispatcher is meant to admit.
C1_SingleFlight ==
    \A m1, m2 \in Messages :
        (/\ m1 # m2
         /\ Len(emoteIDs[m1]) > 0 /\ Len(emoteIDs[m2]) > 0
         /\ Unresolved(m1) /\ Unresolved(m2)) => chatOf[m1] # chatOf[m2]

\* C2: a submission whose requester is in the activity cache when it is
\* looked up ends with the "already processing" notice and leaves the request
\* queue and the activity cache as they were.
C2_DuplicateRejectedUnchanged ==
    [][\A m \in Messages :
          (hpc[m] = "new" /\ hpc'[m] # "new" /\ chatOf'[m] \in activityCache)
          => /\ hpc'[m] = "done"
             /\ notices'[m] = <<"already">>
             /\ reqQueue' = reqQueue
             /\ activityCache' = activityCache]_vars

\* A duplicate was rejected while the first request of the chat is in flight.
C2_Witness ==
    \E m1, m2 \in Messages :
        /\ m1 # m2
        /\ chatOf[m1] = chatOf[m2]
        /\ notices[m2] = <<"already">>
        /\ Unresolved(m1)

\* C3: a submission without asset tokens is never inserted in the activity
\* cache, never enqueued and never taken by a worker.
C3_EmptySubmissionRejected ==
    \A m \in Messages :
        (hpc[m] \in {"enq", "await", "release"} \/ Queued(m) \/ dequeues[m] > 0)
        => Len(emoteIDs[m]) > 0

\* The worker that took the request is through with it: it went on to the
\* next iteration of its loop, or it died.
WorkerThrough(m) == dequeues[m] > 0 /\ ~HeldByWorker(m)

\* C9: the result channel of a dequeued request is closed exactly once, with
\* at most one write before the close, a write if and only if the pipeline
\* returned an error, and one worker only takes the request.
C9_ResultChannelProtocol ==
    \A m \in Messages :
        /\ errChan[m].closes <= 1
        /\ errChan[m].writes <= 1
        /\ dequeues[m] <= 1
        /\ errChan[m].writes = 1 => pipeErr[m] = "err"
        /\ errChan[m].closes = 1 => (errChan[m].writes = 1 <=> pipeErr[m] = "err")
        /\ WorkerThrough(m) => errChan[m].closes = 1

\* The program is through with the submission: its handler has returned, or
\* the process has died after the update arrived.
Finished(m) == hpc[m] = "done" \/ (panicked /\ m <= received)

\* C13: a submission never has two terminal outcomes and has exactly one
\* when the program is through with it; a failed job delivers no attachment
\* and a successful job no failure notice.
C13_ExactlyOneOutcome ==
    \A m \in Messages :
        /\ Len(notices[m]) <= 1
        /\ Finished(m) => Len(notices[m]) = 1
        /\ \A k \in 1..Len(notices[m]) :
              /\ notices[m][k] \in {"already", "invalid", "attachment", "failed"}
              /\ notices[m][k] = "attachment" => pipeErr[m] = "nil"
              /\ notices[m][k] = "failed" => pipeErr[m] = "err"

\* The places of a request: validated (the handler is between the validation
\* loop and the send on the queue), enqueued, in progress (with a worker, the
\* requester not yet answered through the result channel), resolved (an error
\* was written to the result channel, or it was closed).
Validated(m) == hpc[m] \in {"set", "enq"}

Resolved(m) == errChan[m].writes > 0 \/ errChan[m].closes > 0

InProgress(m) == (\E w \in Workers : wreq[w] = m) /\ ~Resolved(m)

ReqState(m) ==
    IF Resolved(m) THEN "resolved"
    ELSE IF InProgress(m) THEN "in-progress"
    ELSE IF Queued(m) THEN "enqueued"
    ELSE IF Validated(m) THEN "validated"
    ELSE "none"

\* C14: a request is at one place at a time, is taken from the queue once,
\* and moves only validated -> enqueued -> in-progress -> resolved: a worker
\* processes only what it took from the queue, only a request in progress is
\* resolved, and a resolved request is not enqueued or processed again.
C14_RequestStateMachine ==
    /\ [](\A m \in Messages :
            /\ dequeues[m] <= 1
            /\ Cardinality({i \in 1..Len(reqQueue) : reqQueue[i] = m}) <= 1
            /\ Cardinality({w \in Workers : wreq[w] = m}) <= 1
            /\ ~(Validated(m) /\ Queued(m))
            /\ ~(Queued(m) /\ \E w \in Workers : wreq[w] = m)
            /\ Resolved(m) => ~Validated(m) /\ ~Queued(m)
            /\ (\E w \in Workers : wreq[w] = m /\ wpc[w] = "proc") => ~Resolved(m))
    /\ [][\A m \in Messages :
            \/ ReqState(m)' = ReqState(m)
            \/ <<ReqState(m), ReqState(m)'>> \in
                  { <<"none", "validated">>, <<"validated", "enqueued">>,
                    <<"enqueued", "in-progress">>, <<"in-progress", "resolved">> }]_vars

\* A request went all the way: taken from the queue once, failed, answered
\* with the error, its channel closed and its handler returned.
C14_Witness ==
    \E m \in Messages :
        /\ dequeues[m] = 1
        /\ errChan[m].writes = 1
        /\ errChan[m].closes = 1
        /\ hpc[m] = "done"

\* C15: a request a worker has run went to processSingleEmote exactly when it
\* carries one emote id and to processOverlayedEmote exactly when it carries
\* two or three; nothing else is run.
C15_WorkerRouting ==
    \A m \in Messages :
        /\ route[m] \in {"none", "single", "overlay"}
        /\ pipeErr[m] # "none" => route[m] # "none"
        /\ route[m] = "single" <=> (pipeErr[m] # "none" /\ Len(emoteIDs[m]) = 1)
        /\ route[m] = "overlay" <=> (pipeErr[m] # "none" /\ Len(emoteIDs[m]) \in 2..3)

\* One request of three emote ids went the overlay way and one of a single
\* emote id the single way.
C15_Witness ==
    \E m1, m2 \in Messages :
        /\ Len(emoteIDs[m1]) = 3 /\ route[m1] = "overlay"
        /\ Len(emoteIDs[m2]) = 1 /\ route[m2] = "single"

\* C17: the step that rejects a submission at validation changes nothing but
\* the requester's notices and the handler's position: the activity cache,
\* the queue, the result channels and the workers stay as they were; and a
\* rejected submission is never enqueued, taken by a worker or run.
C17_RejectionAllocatesNothing ==
    /\ [][\A m \in Messages :
            (hpc[m] = "new" /\ notices'[m] = <<"invalid">>) =>
                /\ hpc'[m] = "done"
                /\ activityCache' = activityCache
                /\ reqQueue' = reqQueue
                /\ errChan' = errChan
                /\ emoteIDs' = emoteIDs
                /\ <<wpc, wreq, pipeErr, dequeues, route>>' =
                       <<wpc, wreq, pipeErr, dequeues, route>>]_vars
    /\ [](\A m \in Messages :
            (Len(notices[m]) > 0 /\ notices[m][1] = "invalid") =>
                /\ notices[m] = <<"invalid">>
                /\ hpc[m] = "done"
                /\ ~Queued(m)
                /\ dequeues[m] = 0
                /\ errChan[m] = [writes |-> 0, closes |-> 0]
                /\ route[m] = "none"
                /\ pipeErr[m] = "none")

\* A submission was rejected at validation while another request is in the
\* queue and its chat is in the activity cache.
C17_Witness ==
    \E m1, m2 \in Messages :
        /\ notices[m2] = <<"invalid">>
        /\ Queued(m1)
        /\ chatOf[m1] \in activityCache
        /\ chatOf[m2] \notin activityCache

\* C20: every request whose chat was inserted in the activity cache is
\* eventually taken from the queue, its result channel is eventually closed,
\* and its handler eventually returns with the chat deleted from the cache.
C20_AdmittedEventuallyReleased ==
    \A m \in Messages :
        /\ (hpc[m] = "enq") ~> (dequeues[m] > 0)
        /\ (hpc[m] = "enq") ~> (errChan[m].closes > 0)
        /\ (hpc[m] = "enq") ~> (hpc[m] = "done" /\ chatOf[m] \notin activityCache)

\* C21: the chat of every request that is about to be sent on the queue, is
\* in the queue, or is with a worker and not yet resolved, is in the activity
\* cache.
C21_ActivitySetCoverage ==
    \A m \in Messages :
        (hpc[m] = "enq" \/ Queued(m) \/ InProgress(m)) => chatOf[m] \in activityCache

====
